---- MODULE Spec2Model ----
(***************************************************************************)
(* Model of delayqueue-rs (src/src/lib.rs): a min-deadline binary heap and *)
(* a leader slot behind one mutex, with a condition variable on which      *)
(* consumers wait, timed (the leader) or untimed (everyone else).          *)
(***************************************************************************)
EXTENDS Integers, Sequences, FiniteSets, TLC

\* ---- bounds ----
MaxTime == 2
MaxPuts == 2
MaxTakes == 2

Producers == {"p1"}
Consumers == {"c1", "c2"}
Threads == Producers \cup Consumers
Messages == {"a", "b"}
Deadlines == 0..MaxTime
NoThread == "none"
\* identities of the reference-counted allocations a handle can point to
Allocs == {0, 1}

VARIABLES msgs, now, queue, current_thread, mutex, handle, pc, arg, wakeAt,
          budget, todo, puts, taken

vars == <<msgs, now, queue, current_thread, mutex, handle, pc, arg, wakeAt,
          budget, todo, puts, taken>>

\* ---- items (test::Task) ----
Task(deadline, message, id) == [deadline |-> deadline, message |-> message, id |-> id]
NoTask == Task(0, "a", -1)

\* Delayed::delayed: deadline minus the current time
delayed(t) == t.deadline - now

\* Ord for Task compares deadlines only; the store holds Reverse<Arc<Task>>,
\* so a <= b in the store's order is b.deadline <= a.deadline
RevLe(a, b) == b.deadline <= a.deadline

\* derived PartialEq for Task: all fields (not the allocation's identity)
TaskEq(a, b) == a.deadline = b.deadline /\ a.message = b.message

\* ---- the handle ----
\* DelayQueue::default(): a fresh store and a fresh condition variable
default == [queue |-> 0, available |-> 0]

\* a clone that allocates a condition variable of its own
clone_fresh(self) == [queue |-> self.queue, available |-> 1 - self.available]

\* Clone for DelayQueue: both reference-counted pointers are copied
clone(self) == [queue |-> self.queue, available |-> self.available]

\* ---- BinaryHeap ----
Swap(data, i, j) == [data EXCEPT ![i] = data[j], ![j] = data[i]]

\* push that leaves the new element at the bottom
sift_up_none(data, start, pos) == data

RECURSIVE sift_up(_, _, _)
sift_up(data, start, pos) ==
    IF pos > start /\ ~RevLe(data[pos], data[pos \div 2])
    THEN sift_up(Swap(data, pos, pos \div 2), start, pos \div 2)
    ELSE data

RECURSIVE sift_down_to_bottom(_, _, _)
sift_down_to_bottom(data, start, pos) ==
    LET end == Len(data)
        child == 2 * pos
    IN IF child + 1 <= end
       THEN LET next == IF RevLe(data[child], data[child + 1]) THEN child + 1 ELSE child
            IN sift_down_to_bottom(Swap(data, pos, next), start, next)
       ELSE IF child = end
            THEN sift_up(Swap(data, pos, child), start, child)
            ELSE sift_up(data, start, pos)

push(data, t) == sift_up(Append(data, t), 1, Len(data) + 1)

\* pop that hands out the head without removing it
pop_keep(data) == data

pop(data) ==
    IF Len(data) = 1 THEN << >>
    ELSE sift_down_to_bottom([SubSeq(data, 1, Len(data) - 1) EXCEPT ![1] = data[Len(data)]], 1, 1)

\* DelayQueueInner::peek; callers test emptiness first
peek(data) == data[1]

\* ---- the condition variable ----
WaitPcs == {"wait58", "wait72", "wait78"}
WokenPcs == {"wake58", "wake72", "wake78"}
Woken(p) == CASE p = "wait58" -> "wake58" [] p = "wait72" -> "wake72" [] p = "wait78" -> "wake78"

Waiters(cv, pcs) == {c \in Consumers : pcs[c] \in WaitPcs /\ handle[c].available = cv}

\* a signal that reaches nobody
notify_one_lost(cv, pcs) == {pcs}

\* Condvar::notify_one: one of the threads waiting on cv, if any, is woken
notify_one(cv, pcs) ==
    IF Waiters(cv, pcs) = {} THEN {pcs}
    ELSE {[pcs EXCEPT ![w] = Woken(pcs[w])] : w \in Waiters(cv, pcs)}

\* a put that never signals
IsNewHead_never(data, t) == FALSE

\* put, line 46: `queue.peek() == Some(&t)` after the push
IsNewHead(data, t) == TaskEq(peek(data), t)

\* a pop that never signals
ShouldSignal_never(leader, rest) == FALSE

\* a pop that signals without looking at the leader slot
ShouldSignal_nonempty(leader, rest) == rest # << >>

\* take, line 64: no leader is designated and an item remains
ShouldSignal(leader, rest) == leader = NoThread /\ rest # << >>

\* a due test that is off by one tick
Due_early(d) == d <= 1

\* `delayed <= 0`: the head is due
Due(d) == d <= 0

\* ---- initial state: the queue is constructed and every thread owns a clone ----
\* ms: the messages the producer draws from; b: the number of puts each
\* producer makes; t: the number of take calls each consumer makes
InitWith(ms, b, t) ==
    /\ msgs = ms
    /\ now = 0
    /\ queue = [q \in Allocs |-> << >>]
    /\ current_thread = [q \in Allocs |-> NoThread]
    /\ mutex = [q \in Allocs |-> NoThread]
    /\ handle = [th \in Threads |-> clone(default)]
    /\ pc = [th \in Threads |-> "idle"]
    /\ arg = [p \in Producers |-> NoTask]
    /\ wakeAt = [c \in Consumers |-> 0]
    /\ budget = b
    /\ todo = t
    /\ puts = {}
    /\ taken = << >>

Init == InitWith(Messages, [p \in Producers |-> MaxPuts], [c \in Consumers |-> MaxTakes])

\* ---- the clock ----
Tick ==
    /\ now < MaxTime
    /\ now' = now + 1
    /\ UNCHANGED <<msgs, queue, current_thread, mutex, handle, pc, arg, wakeAt, budget, todo, puts, taken>>

\* ---- put ----
\* the caller builds the item, put locks the mutex
PutLock(p, d, m) ==
    /\ pc[p] = "idle"
    /\ budget[p] > 0
    /\ mutex[handle[p].queue] = NoThread
    /\ mutex' = [mutex EXCEPT ![handle[p].queue] = p]
    /\ arg' = [arg EXCEPT ![p] = Task(d, m, Cardinality(puts))]
    /\ pc' = [pc EXCEPT ![p] = "put44"]
    /\ UNCHANGED <<msgs, now, queue, current_thread, handle, wakeAt, budget, todo, puts, taken>>

\* a put that also clears the leader slot when it signals
PutPush_clear(p) ==
    /\ pc[p] = "put44"
    /\ LET q == handle[p].queue
           data == push(queue[q], arg[p])
           done == [pc EXCEPT ![p] = "idle"]
       IN /\ queue' = [queue EXCEPT ![q] = data]
          /\ IF IsNewHead(data, arg[p])
             THEN /\ pc' \in notify_one(handle[p].available, done)
                  /\ current_thread' = [current_thread EXCEPT ![q] = NoThread]
             ELSE /\ pc' = done
                  /\ UNCHANGED current_thread
          /\ mutex' = [mutex EXCEPT ![q] = NoThread]
          /\ puts' = puts \cup {arg[p]}
    /\ arg' = [arg EXCEPT ![p] = NoTask]
    /\ budget' = [budget EXCEPT ![p] = @ - 1]
    /\ UNCHANGED <<msgs, now, handle, wakeAt, todo, taken>>

\* push, signal if the head equals the pushed item, unlock
PutPush(p) ==
    /\ pc[p] = "put44"
    /\ LET q == handle[p].queue
           data == push(queue[q], arg[p])
           done == [pc EXCEPT ![p] = "idle"]
       IN /\ queue' = [queue EXCEPT ![q] = data]
          /\ IF IsNewHead(data, arg[p])
             THEN pc' \in notify_one(handle[p].available, done)
             ELSE pc' = done
          /\ mutex' = [mutex EXCEPT ![q] = NoThread]
          /\ puts' = puts \cup {arg[p]}
    /\ arg' = [arg EXCEPT ![p] = NoTask]
    /\ budget' = [budget EXCEPT ![p] = @ - 1]
    /\ UNCHANGED <<msgs, now, current_thread, handle, wakeAt, todo, taken>>

\* ---- take ----
\* a take that enters its critical section without the mutex being free
TakeLock_barge(c) ==
    /\ pc[c] = "idle"
    /\ todo[c] > 0
    /\ mutex' = [mutex EXCEPT ![handle[c].queue] = c]
    /\ pc' = [pc EXCEPT ![c] = "loop"]
    /\ UNCHANGED <<msgs, now, queue, current_thread, handle, arg, wakeAt, budget, todo, puts, taken>>

\* take locks the mutex
TakeLock(c) ==
    /\ pc[c] = "idle"
    /\ todo[c] > 0
    /\ mutex[handle[c].queue] = NoThread
    /\ mutex' = [mutex EXCEPT ![handle[c].queue] = c]
    /\ pc' = [pc EXCEPT ![c] = "loop"]
    /\ UNCHANGED <<msgs, now, queue, current_thread, handle, arg, wakeAt, budget, todo, puts, taken>>

\* a consumer that names itself leader before waiting on an empty store
TakeWaitEmpty_lead(c) ==
    /\ pc[c] = "loop"
    /\ queue[handle[c].queue] = << >>
    /\ pc' = [pc EXCEPT ![c] = "wait58"]
    /\ current_thread' = [current_thread EXCEPT ![handle[c].queue] = c]
    /\ mutex' = [mutex EXCEPT ![handle[c].queue] = NoThread]
    /\ UNCHANGED <<msgs, now, queue, handle, arg, wakeAt, budget, todo, puts, taken>>

\* an empty store ends the call instead of waiting
TakeWaitEmpty_return(c) ==
    /\ pc[c] = "loop"
    /\ queue[handle[c].queue] = << >>
    /\ pc' = [pc EXCEPT ![c] = "idle"]
    /\ mutex' = [mutex EXCEPT ![handle[c].queue] = NoThread]
    /\ todo' = [todo EXCEPT ![c] = @ - 1]
    /\ UNCHANGED <<msgs, now, queue, current_thread, handle, arg, wakeAt, budget, puts, taken>>

\* None => wait (untimed); waiting unlocks the mutex
TakeWaitEmpty(c) ==
    /\ pc[c] = "loop"
    /\ queue[handle[c].queue] = << >>
    /\ pc' = [pc EXCEPT ![c] = "wait58"]
    /\ mutex' = [mutex EXCEPT ![handle[c].queue] = NoThread]
    /\ UNCHANGED <<msgs, now, queue, current_thread, handle, arg, wakeAt, budget, todo, puts, taken>>

\* the head is due: pop, signal if no leader and items remain, return
TakePop(c) ==
    /\ pc[c] = "loop"
    /\ LET q == handle[c].queue
       IN /\ queue[q] # << >>
          /\ Due(delayed(peek(queue[q])))
          /\ LET result == peek(queue[q])
                 rest == pop(queue[q])
                 done == [pc EXCEPT ![c] = "idle"]
             IN /\ queue' = [queue EXCEPT ![q] = rest]
                /\ IF ShouldSignal(current_thread[q], rest)
                   THEN pc' \in notify_one(handle[c].available, done)
                   ELSE pc' = done
                /\ taken' = Append(taken, [item |-> result, by |-> c])
          /\ mutex' = [mutex EXCEPT ![q] = NoThread]
    /\ todo' = [todo EXCEPT ![c] = @ - 1]
    /\ UNCHANGED <<msgs, now, current_thread, handle, arg, wakeAt, budget, puts>>

\* a follower that empties the leader slot before it waits
TakeFollow_reset(c) ==
    /\ pc[c] = "loop"
    /\ LET q == handle[c].queue
       IN /\ queue[q] # << >>
          /\ ~Due(delayed(peek(queue[q])))
          /\ current_thread[q] # NoThread
          /\ current_thread' = [current_thread EXCEPT ![q] = NoThread]
          /\ mutex' = [mutex EXCEPT ![q] = NoThread]
    /\ pc' = [pc EXCEPT ![c] = "wait72"]
    /\ UNCHANGED <<msgs, now, queue, handle, arg, wakeAt, budget, todo, puts, taken>>

\* a wait that keeps the mutex locked
TakeFollow_hold(c) ==
    /\ pc[c] = "loop"
    /\ LET q == handle[c].queue
       IN /\ queue[q] # << >>
          /\ ~Due(delayed(peek(queue[q])))
          /\ current_thread[q] # NoThread
    /\ pc' = [pc EXCEPT ![c] = "wait72"]
    /\ UNCHANGED <<msgs, now, queue, current_thread, mutex, handle, arg, wakeAt, budget, todo, puts, taken>>

\* the head is not due and a leader is designated: wait (untimed)
TakeFollow(c) ==
    /\ pc[c] = "loop"
    /\ LET q == handle[c].queue
       IN /\ queue[q] # << >>
          /\ ~Due(delayed(peek(queue[q])))
          /\ current_thread[q] # NoThread
          /\ mutex' = [mutex EXCEPT ![q] = NoThread]
    /\ pc' = [pc EXCEPT ![c] = "wait72"]
    /\ UNCHANGED <<msgs, now, queue, current_thread, handle, arg, wakeAt, budget, todo, puts, taken>>

\* a leader whose timed wait is one tick longer than the remaining delay
TakeLead_late(c) ==
    /\ pc[c] = "loop"
    /\ LET q == handle[c].queue
       IN /\ queue[q] # << >>
          /\ ~Due(delayed(peek(queue[q])))
          /\ current_thread[q] = NoThread
          /\ current_thread' = [current_thread EXCEPT ![q] = c]
          /\ wakeAt' = [wakeAt EXCEPT ![c] = now + delayed(peek(queue[q])) + 1]
          /\ mutex' = [mutex EXCEPT ![q] = NoThread]
    /\ pc' = [pc EXCEPT ![c] = "wait78"]
    /\ UNCHANGED <<msgs, now, queue, handle, arg, budget, todo, puts, taken>>

\* a consumer that takes the leader slot whoever holds it
TakeLead_overwrite(c) ==
    /\ pc[c] = "loop"
    /\ LET q == handle[c].queue
       IN /\ queue[q] # << >>
          /\ ~Due(delayed(peek(queue[q])))
          /\ current_thread' = [current_thread EXCEPT ![q] = c]
          /\ wakeAt' = [wakeAt EXCEPT ![c] = now + delayed(peek(queue[q]))]
          /\ mutex' = [mutex EXCEPT ![q] = NoThread]
    /\ pc' = [pc EXCEPT ![c] = "wait78"]
    /\ UNCHANGED <<msgs, now, queue, handle, arg, budget, todo, puts, taken>>

\* the head is not due and no leader is designated: become leader, wait_for(delayed)
TakeLead(c) ==
    /\ pc[c] = "loop"
    /\ LET q == handle[c].queue
       IN /\ queue[q] # << >>
          /\ ~Due(delayed(peek(queue[q])))
          /\ current_thread[q] = NoThread
          /\ current_thread' = [current_thread EXCEPT ![q] = c]
          /\ wakeAt' = [wakeAt EXCEPT ![c] = now + delayed(peek(queue[q]))]
          /\ mutex' = [mutex EXCEPT ![q] = NoThread]
    /\ pc' = [pc EXCEPT ![c] = "wait78"]
    /\ UNCHANGED <<msgs, now, queue, handle, arg, budget, todo, puts, taken>>

\* the timed wait expires
Timeout(c) ==
    /\ pc[c] = "wait78"
    /\ wakeAt[c] <= now
    /\ pc' = [pc EXCEPT ![c] = "wake78"]
    /\ UNCHANGED <<msgs, now, queue, current_thread, mutex, handle, arg, wakeAt, budget, todo, puts, taken>>

\* a leader that leaves the slot naming itself when it wakes
Relock_keep(c) ==
    /\ pc[c] \in WokenPcs
    /\ mutex[handle[c].queue] = NoThread
    /\ mutex' = [mutex EXCEPT ![handle[c].queue] = c]
    /\ wakeAt' = [wakeAt EXCEPT ![c] = 0]
    /\ pc' = [pc EXCEPT ![c] = "loop"]
    /\ UNCHANGED <<msgs, now, queue, current_thread, handle, arg, budget, todo, puts, taken>>

\* a woken waiter reacquires the mutex; the leader then clears the slot if it
\* still names it; the loop starts over
Relock(c) ==
    /\ pc[c] \in WokenPcs
    /\ LET q == handle[c].queue
       IN /\ mutex[q] = NoThread
          /\ mutex' = [mutex EXCEPT ![q] = c]
          /\ current_thread' = IF pc[c] = "wake78" /\ current_thread[q] = c
                               THEN [current_thread EXCEPT ![q] = NoThread]
                               ELSE current_thread
    /\ wakeAt' = [wakeAt EXCEPT ![c] = 0]
    /\ pc' = [pc EXCEPT ![c] = "loop"]
    /\ UNCHANGED <<msgs, now, queue, handle, arg, budget, todo, puts, taken>>

Next ==
    \/ Tick
    \/ \E p \in Producers, d \in Deadlines, m \in msgs : PutLock(p, d, m)
    \/ \E p \in Producers : PutPush(p)
    \/ \E c \in Consumers : TakeLock(c)
    \/ \E c \in Consumers : TakeWaitEmpty(c)
    \/ \E c \in Consumers : TakePop(c)
    \/ \E c \in Consumers : TakeFollow(c)
    \/ \E c \in Consumers : TakeLead(c)
    \/ \E c \in Consumers : Timeout(c)
    \/ \E c \in Consumers : Relock(c)

Spec == Init /\ [][Next]_vars

\* a wait on the condition variable that returns without a signal and
\* without its timeout
SpuriousWake(c) ==
    /\ pc[c] \in WaitPcs
    /\ pc' = [pc EXCEPT ![c] = Woken(pc[c])]
    /\ UNCHANGED <<msgs, now, queue, current_thread, mutex, handle, arg, wakeAt, budget, todo, puts, taken>>

NextSpurious ==
    \/ Next
    \/ \E c \in Consumers : SpuriousWake(c)

\* the program on a condition variable that may wake its waiters spuriously
SpecSpurious == Init /\ [][NextSpurious]_vars

\* one consumer drains a store that grows to HeapPuts items while a second
\* consumer makes a single call
HeapPuts == MaxPuts + 2
InitOrder ==
    InitWith({"a"}, [p \in Producers |-> HeapPuts],
             [c \in Consumers |-> IF c = "c1" THEN HeapPuts ELSE 1])
SpecOrder == InitOrder /\ [][Next]_vars

\* scheduling: the clock advances, timed waits expire, and a thread that can
\* run does run.  A thread is at one position at a time, so fairness is stated
\* per thread.  Every thread makes a bounded number of calls, so a thread that
\* asks for the mutex finds it free for good after finitely many steps of the
\* others: weak fairness is all that is needed.
PutStep(p) == (\E d \in Deadlines, m \in msgs : PutLock(p, d, m)) \/ PutPush(p)
TakeStep(c) ==
    \/ TakeLock(c)
    \/ TakeWaitEmpty(c) \/ TakePop(c) \/ TakeFollow(c) \/ TakeLead(c)
    \/ Timeout(c)
    \/ Relock(c)
Fairness ==
    /\ WF_vars(Tick)
    /\ \A p \in Producers : WF_vars(PutStep(p))
    /\ \A c \in Consumers : WF_vars(TakeStep(c))

\* the producer puts MaxPuts items, each consumer makes any number of calls
InitFair ==
    \E t \in [Consumers -> 0..MaxTakes] :
        InitWith({"a"}, [p \in Producers |-> MaxPuts], t)
FairSpec == InitFair /\ [][Next]_vars /\ Fairness

\* exactly one item is ever put and at least one consumer calls take
InitSingle ==
    \E t \in [Consumers -> 0..MaxTakes] :
        /\ \E c \in Consumers : t[c] > 0
        /\ InitWith(Messages, [p \in Producers |-> 1], t)
SpecSingle == InitSingle /\ [][Next]_vars /\ Fairness

TypeOK ==
    /\ now \in 0..MaxTime
    /\ \A c \in Consumers : pc[c] \in {"idle", "loop"} \cup WaitPcs \cup WokenPcs
    /\ \A p \in Producers : pc[p] \in {"idle", "put44"}

\* ---- helpers for the properties ----
\* the shared instance every handle is cloned from
Q == default.queue
Store == queue[Q]
Items(data) == {data[i] : i \in 1..Len(data)}
Ids(data) == {data[i].id : i \in 1..Len(data)}
TakenItems == {taken[i].item : i \in 1..Len(taken)}
TakenIds == {taken[i].item.id : i \in 1..Len(taken)}
Returned == taken' # taken
Last(s) == s[Len(s)]

\* C1: take returns an item only when the remaining delay it evaluated for
\* that item under the lock was <= 0: no item is returned before its deadline.
C1_NeverBeforeDeadline ==
    [][Returned => /\ Len(taken') = Len(taken) + 1
                   /\ Last(taken').item \in Items(Store)
                   /\ Last(taken').item.deadline - now <= 0]_vars

\* an item with a deadline in the future was put, waited for, and returned
C1_Witness ==
    \E i \in 1..Len(taken) : taken[i].item.deadline = MaxTime

\* C2: every item that was put is either still in the store or was returned by
\* exactly one take, never both and never neither; the number of items
\* returned equals the number of take calls that returned.
C2_Conservation ==
    /\ Cardinality(Ids(Store)) = Len(Store)
    /\ Cardinality(TakenIds) = Len(taken)
    /\ Ids(Store) \cap TakenIds = {}
    /\ Items(Store) \cup TakenItems = puts
    /\ Len(Store) + Len(taken) = Cardinality(puts)
    /\ \A c \in Consumers :
          Cardinality({i \in 1..Len(taken) : taken[i].by = c}) + todo[c] = MaxTakes

\* every item put was returned, to two different consumers
C2_Witness ==
    /\ Len(taken) = MaxPuts
    /\ Store = << >>
    /\ \E i, j \in 1..Len(taken) : taken[i].by # taken[j].by

\* C3: the head of the store has the minimal deadline, and every take removes
\* an item whose deadline is minimal among the items in the store at the
\* instant of removal.
C3_TakesMinimum ==
    [][/\ \A i \in 1..Len(Store) : peek(Store).deadline <= Store[i].deadline
       /\ Returned => \A i \in 1..Len(Store) :
                         Last(taken').item.deadline <= Store[i].deadline]_vars

\* one consumer received the item that was put second before the item that
\* was put first, because its deadline was earlier
C3_Witness ==
    \E i, j \in 1..Len(taken) :
        /\ i < j
        /\ taken[i].by = taken[j].by
        /\ taken[i].item.id > taken[j].item.id
        /\ taken[i].item.deadline < taken[j].item.deadline

\* ---- more helpers ----
RECURSIVE SumOver(_, _)
SumOver(f, S) == IF S = {} THEN 0
                 ELSE LET x == CHOOSE y \in S : TRUE IN f[x] + SumOver(f, S \ {x})
AllReturned == \A c \in Consumers : pc[c] = "idle" /\ todo[c] = 0
Blocked(c) == pc[c] \in WaitPcs
Expired(c) == pc[c] = "wait78" /\ wakeAt[c] <= now
\* signalled, timed out, or already running its loop again
WakePending(c) == pc[c] \in WokenPcs \/ Expired(c) \/ pc[c] = "loop"

\* C4: when the producer puts N items and the consumers together make
\* exactly N take calls, then under fair scheduling every take call returns.
C4_AllTakesReturn ==
    (SumOver(todo, Consumers) = MaxPuts) => <>AllReturned

\* all calls have returned, one of them after waiting for the latest deadline,
\* and both consumers received items
C4_Witness ==
    /\ AllReturned
    /\ Len(taken) = MaxPuts
    /\ \E i, j \in 1..Len(taken) :
          taken[i].by # taken[j].by /\ taken[i].item.deadline = MaxTime

\* C5: if exactly one item is ever put and a thread calls take, some take
\* returns it; the leader's timed wait expires exactly at the item's
\* deadline, and once the item is due while still queued with a consumer
\* inside take, some consumer inside take is runnable.
C5_SingleItemDelivered ==
    /\ <>(Len(taken) = 1)
    /\ [](\A c \in Consumers :
            pc[c] = "wait78" => puts # {} /\ \A t \in puts : wakeAt[c] = t.deadline)
    /\ []((Store # << >> /\ peek(Store).deadline <= now
              /\ \E c \in Consumers : pc[c] # "idle")
            => \E c \in Consumers : WakePending(c))

\* the item was returned while the other consumer is still blocked in take
C5_Witness ==
    /\ Len(taken) = 1
    /\ taken[1].item.deadline = MaxTime
    /\ \E c \in Consumers : Blocked(c)

\* C6: whenever the store is non-empty and a consumer is blocked in take,
\* either a consumer has a wake-up pending or the leader's timed wait expires
\* no later than the deadline of the current head.
C6_NoDueItemUnnoticed ==
    (Store # << >> /\ \E c \in Consumers : Blocked(c))
        => \/ \E c \in Consumers : WakePending(c)
           \/ \E c \in Consumers : /\ pc[c] = "wait78"
                                   /\ current_thread[Q] = c
                                   /\ wakeAt[c] <= peek(Store).deadline

\* C7: at most one consumer is in a timed wait and it is the designated
\* leader; a thread designates itself leader only when the slot is empty.
C7_SingleLeader ==
    /\ [](/\ Cardinality({c \in Consumers : pc[c] = "wait78"}) <= 1
          /\ current_thread[Q] \in Consumers \cup {NoThread}
          /\ \A c \in Consumers :
                pc[c] \in {"wait78", "wake78"} <=> current_thread[Q] = c)
    /\ [][\A c \in Consumers :
            (current_thread'[Q] = c /\ current_thread[Q] # c)
                => current_thread[Q] = NoThread /\ pc[c] = "loop"]_vars

\* a leader in its timed wait next to a follower in an untimed wait
C7_Witness ==
    \E c, d \in Consumers : pc[c] = "wait78" /\ pc[d] = "wait72"

\* C8: a consumer blocked in take does not hold the mutex, put holds it from
\* the lock to its return and goes nowhere else, and every put call of the
\* producer returns however many consumers stay blocked.
C8_PutNeverBlocks ==
    /\ [](\A c \in Consumers : pc[c] # "loop" => mutex[Q] # c)
    /\ [](\A p \in Producers : pc[p] \in {"idle", "put44"}
                               /\ (pc[p] = "put44" <=> mutex[Q] = p))
    /\ <>(\A p \in Producers : pc[p] = "idle" /\ budget[p] = 0)

\* the producer is inside put while every consumer is blocked in a wait
C8_Witness ==
    /\ \A c \in Consumers : Blocked(c)
    /\ \E p \in Producers : pc[p] = "put44"

\* C9: a take call ends only by popping a head that is due; with an empty
\* store or a head that is not due a step of the call leads to a wait.
C9_ReturnOnlyByPop ==
    [][\A c \in Consumers :
         /\ (pc[c] # "idle" /\ pc'[c] = "idle")
               => /\ pc[c] = "loop"
                  /\ Store # << >>
                  /\ peek(Store).deadline <= now
                  /\ taken' = Append(taken, [item |-> peek(Store), by |-> c])
                  /\ Len(queue'[Q]) = Len(Store) - 1
         /\ (pc[c] = "loop" /\ pc'[c] # "loop"
               /\ (Store = << >> \/ peek(Store).deadline > now))
               => pc'[c] \in WaitPcs]_vars

\* a call returned an item that was not due at first, while another call is
\* still waiting
C9_Witness ==
    /\ \E i \in 1..Len(taken) : taken[i].item.deadline = MaxTime
    /\ \E c \in Consumers : pc[c] = "wait58"

\* C10: every handle points to the one shared store and condition variable:
\* an item put through the producer's handle is in the store seen through
\* every consumer's handle, and a put that installs a head while consumers
\* wait wakes one of them.
C10_SharedInstance ==
    /\ [](\A th \in Threads : handle[th] = default)
    /\ [][\A p \in Producers : (pc[p] = "put44" /\ pc'[p] = "idle") =>
            /\ \A c \in Consumers : arg[p] \in Items(queue'[handle[c].queue])
            /\ (Store = << >> /\ \E c \in Consumers : Blocked(c))
                  => \E c \in Consumers : Blocked(c) /\ pc'[c] \in WokenPcs]_vars

\* a consumer woken by the producer's put returned the item
C10_Witness ==
    /\ Len(taken) > 0
    /\ \E c \in Consumers : pc[c] = "wake58"

\* ---- helpers for the signalling claims ----
\* the consumers that a step moves from a wait to woken
WokenInStep == {c \in Consumers : pc[c] \in WaitPcs /\ pc'[c] \in WokenPcs}
\* a step in which p's put pushes and returns
PutReturns(p) == pc[p] = "put44" /\ pc'[p] = "idle"
\* a step in which c's take pops and returns
TakeReturns(c) == pc[c] = "loop" /\ pc'[c] = "idle"
\* the consumers waiting on the shared condition variable
Waiting == Waiters(default.available, pc)

\* C11: put inserts the item and wakes one waiting consumer if and only if,
\* after the push, the head of the store is the pushed item; a put of an item
\* that is not the new head wakes no consumer, and no put wakes more than one.
C11_PutSignalsIffNewHead ==
    [][\A p \in Producers : PutReturns(p) =>
         LET pushedIsHead == peek(queue'[Q]).id = arg[p].id
         IN /\ arg[p] \in Items(queue'[Q])
            /\ Len(queue'[Q]) = Len(Store) + 1
            /\ Cardinality(WokenInStep) <= 1
            /\ Waiting # {} => (Cardinality(WokenInStep) = 1 <=> pushedIsHead)
            /\ ~pushedIsHead => WokenInStep = {}]_vars

\* C12: a take that pops a due item wakes one waiting consumer if and only
\* if no leader is designated and the store is still non-empty after the pop;
\* with a leader designated or an empty store it wakes nobody; in both cases
\* it returns the popped item.
C12_PopSignalsIffNoLeader ==
    [][\A c \in Consumers : TakeReturns(c) =>
         LET signal == current_thread'[Q] = NoThread /\ queue'[Q] # << >>
         IN /\ taken' = Append(taken, [item |-> peek(Store), by |-> c])
            /\ current_thread'[Q] = current_thread[Q]
            /\ Cardinality(WokenInStep) <= 1
            /\ Waiting # {} => (Cardinality(WokenInStep) = 1 <=> signal)
            /\ ~signal => WokenInStep = {}]_vars

\* an item was popped with no leader designated and an item left behind, and
\* the follower has been woken for it
C12_Witness ==
    /\ Len(taken) = 1
    /\ Store # << >>
    /\ current_thread[Q] = NoThread
    /\ \E c \in Consumers : pc[c] = "wake72" /\ taken[1].by # c

\* C13: the leader slot goes from naming a thread to empty only in a step of
\* that thread, taken on waking from its timed wait; no step of a producer
\* changes the slot, and no step of a consumer that is not the leader clears
\* or overwrites a designated leader.
C13_LeaderClearedOnlyByLeader ==
    [][/\ \A c \in Consumers :
            (current_thread[Q] = c /\ current_thread'[Q] # c)
                => /\ current_thread'[Q] = NoThread
                   /\ pc[c] = "wake78"
                   /\ pc'[c] = "loop"
       /\ \A p \in Producers :
            pc'[p] # pc[p] => current_thread' = current_thread
       /\ \A c \in Consumers :
            (pc'[c] # pc[c] /\ current_thread[Q] \notin {c, NoThread})
                => current_thread' = current_thread]_vars

\* a put installed an earlier head while the leader sleeps: the slot still
\* names the leader
C13_Witness ==
    \E c \in Consumers :
        /\ pc[c] = "wait78"
        /\ current_thread[Q] = c
        /\ Store # << >>
        /\ peek(Store).deadline < wakeAt[c]

\* C14: a consumer that finds the head not due and the slot empty designates
\* itself leader and waits with a timeout equal to the head's remaining
\* delay; on waking, by timeout or by signal, it finds the slot naming itself
\* and clears it before it re-evaluates.  The slot names a thread only while
\* that thread is in its timed wait or woken from it, and no thread returns
\* from take while it is the leader.
C14_LeaderProtocol ==
    /\ [](\A c \in Consumers :
            current_thread[Q] = c => pc[c] \in {"wait78", "wake78"})
    /\ [][\A c \in Consumers :
            /\ (pc[c] = "loop" /\ pc'[c] # "loop" /\ Store # << >>
                  /\ peek(Store).deadline - now > 0 /\ current_thread[Q] = NoThread)
                  => /\ pc'[c] = "wait78"
                     /\ current_thread'[Q] = c
                     /\ wakeAt'[c] - now = peek(Store).deadline - now
            /\ (pc[c] = "wake78" /\ pc'[c] # "wake78")
                  => /\ pc'[c] = "loop"
                     /\ current_thread[Q] = c
                     /\ current_thread'[Q] = NoThread
            /\ TakeReturns(c) => current_thread[Q] # c]_vars

\* the leader was woken by a signal before its timeout and the slot still
\* names it
C14_Witness ==
    \E c \in Consumers :
        pc[c] = "wake78" /\ current_thread[Q] = c /\ wakeAt[c] > now

\* C15: a consumer that finds the head not due while another thread is the
\* leader goes into the untimed wait and changes neither the store, the
\* leader slot nor anybody's timer, also after a put installed an earlier
\* head; the leader's timed wait keeps its expiry and ends only when that
\* expiry is reached or the leader is woken by a signalling put or take.
C15_FollowerLeavesLeaderAlone ==
    [][\A c \in Consumers :
         /\ (pc[c] = "loop" /\ pc'[c] # "loop" /\ Store # << >>
               /\ peek(Store).deadline - now > 0
               /\ current_thread[Q] \notin {NoThread, c})
               => /\ pc'[c] = "wait72"
                  /\ queue' = queue
                  /\ current_thread' = current_thread
                  /\ wakeAt' = wakeAt
                  /\ \A d \in Threads \ {c} : pc'[d] = pc[d]
         /\ (pc[c] = "wait78" /\ pc'[c] = "wait78") => wakeAt'[c] = wakeAt[c]
         /\ (pc[c] = "wait78" /\ pc'[c] # "wait78")
               => /\ pc'[c] = "wake78"
                  /\ \/ wakeAt[c] <= now
                     \/ \E p \in Producers : PutReturns(p)
                     \/ \E d \in Consumers : TakeReturns(d)]_vars

\* the follower is back in its untimed wait after a put installed an earlier
\* head, and the leader still sleeps until the older deadline
C15_Witness ==
    \E c, d \in Consumers :
        /\ pc[c] = "wait78"
        /\ pc[d] = "wait72"
        /\ peek(Store).deadline < wakeAt[c]
        /\ wakeAt[c] > now

\* C16: a take that finds the store empty goes into the untimed wait without
\* touching the leader slot, any timer or the store; a delay is evaluated
\* (follower or leader wait, or pop) only on a non-empty store.
C16_EmptyStoreWaits ==
    [][\A c \in Consumers :
         /\ (pc[c] = "loop" /\ pc'[c] # "loop" /\ Store = << >>)
               => /\ pc'[c] = "wait58"
                  /\ queue' = queue
                  /\ current_thread' = current_thread
                  /\ wakeAt' = wakeAt
                  /\ taken' = taken
         /\ (pc[c] = "loop" /\ pc'[c] \in {"wait72", "wait78", "idle"})
               => Store # << >>
         /\ (pc[c] = "loop" /\ pc'[c] = "wait58") => Store = << >>]_vars

\* a consumer waits on the store after it was drained
C16_Witness ==
    /\ Store = << >>
    /\ taken # << >>
    /\ current_thread[Q] = NoThread
    /\ \E c \in Consumers : pc[c] = "wait58"

\* C17: when any blocked consumer may wake without a signal or timeout, it
\* still holds that no item is returned before its deadline, every take
\* removes a minimum-deadline item, no item is duplicated or lost, and at
\* most one leader is designated, which is the only consumer in a timed wait.
C17_SpuriousWakesTolerated ==
    /\ [](/\ Cardinality(Ids(Store)) = Len(Store)
          /\ Cardinality(TakenIds) = Len(taken)
          /\ Ids(Store) \cap TakenIds = {}
          /\ Items(Store) \cup TakenItems = puts
          /\ Cardinality({c \in Consumers : pc[c] = "wait78"}) <= 1
          /\ \A c \in Consumers :
                pc[c] \in {"wait78", "wake78"} <=> current_thread[Q] = c)
    /\ [][Returned =>
            /\ Last(taken').item = peek(Store)
            /\ peek(Store).deadline <= now
            /\ \A i \in 1..Len(Store) : peek(Store).deadline <= Store[i].deadline
            /\ Ids(queue'[Q]) = Ids(Store) \ {peek(Store).id}]_vars

\* a follower is awake although no signal can have reached it: one item was
\* put before the leader went to sleep, nothing was put or returned since
C17_Witness ==
    /\ Cardinality(puts) = 1
    /\ taken = << >>
    /\ \A p \in Producers : pc[p] = "idle"
    /\ \E c, d \in Consumers : pc[c] = "wait78" /\ pc[d] = "wake72"

\* the threads inside a critical section of put or take
InCritical == {th \in Threads : pc[th] \in {"loop", "put44"}}

\* C18: at most one thread is inside a critical section and it is the holder
\* of the mutex; the store and the leader slot change only in a step of the
\* thread that holds (or in that step acquires) the mutex; entering a wait
\* releases the mutex in the same step, and a woken consumer holds it again
\* before it reads any state; a put or take that signals while consumers
\* wait wakes one of them.
C18_MutualExclusion ==
    /\ [](/\ Cardinality(InCritical) <= 1
          /\ \A th \in Threads : th \in InCritical <=> mutex[Q] = th)
    /\ [][/\ (queue' # queue \/ current_thread' # current_thread)
               => \E th \in Threads :
                     /\ pc'[th] # pc[th]
                     /\ mutex[Q] = th \/ (mutex[Q] = NoThread /\ mutex'[Q] = th)
          /\ \A c \in Consumers :
               /\ (pc[c] # pc'[c] /\ pc'[c] \in WaitPcs)
                     => pc[c] = "loop" /\ mutex[Q] = c /\ mutex'[Q] = NoThread
               /\ (pc[c] \in WokenPcs /\ pc'[c] # pc[c])
                     => pc'[c] = "loop" /\ mutex[Q] = NoThread /\ mutex'[Q] = c
          /\ \A p \in Producers :
               (PutReturns(p) /\ Waiting # {} /\ peek(queue'[Q]).id = arg[p].id)
                     => WokenInStep # {}
          /\ \A c \in Consumers :
               (TakeReturns(c) /\ Waiting # {} /\ current_thread[Q] = NoThread
                     /\ queue'[Q] # << >>)
                     => WokenInStep # {}]_vars

\* the producer is in its critical section while one consumer is woken and
\* has to get the mutex back and the other is still waiting
C18_Witness ==
    /\ \E p \in Producers : pc[p] = "put44"
    /\ \E c, d \in Consumers : pc[c] \in WokenPcs /\ pc[d] \in WaitPcs

\* C19: whenever the store is non-empty and a consumer is blocked in an
\* untimed wait, either a leader is designated and is in (or woken from) its
\* timed wait, or some consumer is awake inside take (woken and not yet back
\* in a wait); there is no state with a non-empty store, an empty leader
\* slot and only untimed waiters inside take.
C19_NoLostWakeup ==
    (Store # << >> /\ \E c \in Consumers : pc[c] \in {"wait58", "wait72"})
        => \/ \E c \in Consumers : /\ current_thread[Q] = c
                                   /\ pc[c] \in {"wait78", "wake78"}
                                   /\ wakeAt[c] <= MaxTime
           \/ \E c \in Consumers : pc[c] \in WokenPcs \cup {"loop"}

\* an item is queued, one consumer waits untimed and nobody is awake: the
\* leader's timer is what will deliver it
C19_Witness ==
    /\ Store # << >>
    /\ \E c, d \in Consumers :
          pc[c] \in {"wait58", "wait72"} /\ pc[d] = "wait78" /\ current_thread[Q] = d
    /\ \A p \in Producers : pc[p] = "idle" /\ budget[p] = 0
====
